---- MODULE Spec2Model ----
(***************************************************************************)
(* Model of two independent utilities of the repository:                   *)
(*   - npmUpload, the plugin ingester                                      *)
(*     (packages/server/src/api/controllers/plugin/npm.ts, and the earlier *)
(*     revision without the secondary path check),                         *)
(*   - TestAPI._requestRaw, the HTTP test request wrapper.                 *)
(* Strings are sequences of one-character strings, so that startsWith,     *)
(* includes, split, slice, join and URL resolution are computed the way    *)
(* the code computes them.                                                 *)
(***************************************************************************)
EXTENDS Integers, Sequences, FiniteSets, TLC

(* ------------------------------ bounds --------------------------------- *)
\* number of pieces appended to a base to build an input URL
MaxPieces == 3
\* number of entries of the query object of a request
MaxQuery == 2

(* --------------------------- string helpers ---------------------------- *)
StartsWith(s, p) == Len(s) >= Len(p) /\ SubSeq(s, 1, Len(p)) = p

EndsWith(s, p) == Len(s) >= Len(p) /\ SubSeq(s, Len(s) - Len(p) + 1, Len(s)) = p

Includes(s, p) == \E i \in 1..(Len(s) - Len(p) + 1) : SubSeq(s, i, i + Len(p) - 1) = p

RECURSIVE Split(_, _)
Split(s, c) ==
  IF \A i \in 1..Len(s) : s[i] # c
  THEN <<s>>
  ELSE LET i == CHOOSE k \in 1..Len(s) : s[k] = c /\ \A j \in 1..(k - 1) : s[j] # c
       IN  <<SubSeq(s, 1, i - 1)>> \o Split(SubSeq(s, i + 1, Len(s)), c)

Slice(segs, n) == IF Len(segs) <= n THEN <<>> ELSE SubSeq(segs, n + 1, Len(segs))

RECURSIVE Join(_, _)
Join(segs, c) ==
  IF segs = <<>> THEN <<>>
  ELSE IF Len(segs) = 1 THEN segs[1]
  ELSE segs[1] \o <<c>> \o Join(Tail(segs), c)

RECURSIVE Flatten(_)
Flatten(ss) == IF ss = <<>> THEN <<>> ELSE ss[1] \o Flatten(Tail(ss))

(* ------------------------------ npm.ts --------------------------------- *)
NpmjsPackageBase ==
  <<"h","t","t","p","s",":","/","/","w","w","w",".","n","p","m","j","s",".","c","o","m",
    "/","p","a","c","k","a","g","e","/">>

RegistryBase ==
  <<"h","t","t","p","s",":","/","/","r","e","g","i","s","t","r","y",".","n","p","m","j","s",
    ".","o","r","g","/">>

ALLOWED_BASE_URLS == {NpmjsPackageBase, RegistryBase}

\* host of the base the resolved path is joined against
RegistryHost == <<"r","e","g","i","s","t","r","y",".","n","p","m","j","s",".","o","r","g">>

TgzExt == <<".","t","g","z">>

EvilHost == <<"e","v","i","l",".","c","o","m">>

OriginError == "The plugin origin must be from NPM"
PathError == "Invalid NPM package path"
NotFoundError == "NPM Package not found"
TarballUrlError == "NPM tarball url not found"
TarballFileError == "Tarball plugin file not found"

\* bases of the input URLs: the two allow-listed ones and three that are not
InputBases ==
  { NpmjsPackageBase,
    RegistryBase,
    SubSeq(RegistryBase, 1, Len(RegistryBase) - 1),
    <<"h","t","t","p",":","/","/">> \o RegistryHost \o <<"/">>,
    <<"h","t","t","p","s",":","/","/">> \o EvilHost \o <<"/">> }

InputPieces == { <<"/">>, <<"\\">>, <<"a">>, EvilHost, TgzExt }

PieceSeqs == UNION { [1..n -> InputPieces] : n \in 0..MaxPieces }

InputUrls == { b \o Flatten(ps) : b \in InputBases, ps \in PieceSeqs }

\* a looser origin test, which accepts a base without its final slash
IsValidBaseUrlLoose(u) ==
  \E baseUrl \in ALLOWED_BASE_URLS : StartsWith(u, SubSeq(baseUrl, 1, Len(baseUrl) - 1))

IsValidBaseUrl(u) == \E baseUrl \in ALLOWED_BASE_URLS : StartsWith(u, baseUrl)

IsDirectTarballSuffix(u) == EndsWith(u, TgzExt)

IsDirectTarball(u) == Includes(u, TgzExt)

ResolvePathNoSlash(u) == Join(Slice(Split(u, "/"), 4), "/")

ResolvePath(u) == <<"/">> \o Join(Slice(Split(u, "/"), 4), "/")

allowedPaths == { <<"/">>, <<"/","-","/">> }

PathAllowed(path) == \E allowedPath \in allowedPaths : StartsWith(path, allowedPath)

\* new URL(path, "https://registry.npmjs.org/"): the base is a special
\* (https) URL, so in a reference both "/" and "\" are slashes; a reference
\* that begins with two slashes carries its own authority, any further
\* slashes are skipped, and an empty authority is a parse failure.
IsSlash(c) == c \in {"/", "\\"}

RECURSIVE SkipSlashes(_)
SkipSlashes(s) == IF s # <<>> /\ IsSlash(s[1]) THEN SkipSlashes(Tail(s)) ELSE s

RECURSIVE TakeAuthority(_)
TakeAuthority(s) ==
  IF s = <<>> \/ s[1] \in {"/", "\\", "?", "#"} THEN <<>>
  ELSE <<s[1]>> \o TakeAuthority(Tail(s))

NewURL(path) ==
  IF Len(path) >= 2 /\ IsSlash(path[1]) /\ IsSlash(path[2])
  THEN LET auth == TakeAuthority(SkipSlashes(SubSeq(path, 3, Len(path))))
       IN  IF auth = <<>> THEN [ok |-> FALSE, host |-> <<>>]
           ELSE [ok |-> TRUE, host |-> auth]
  ELSE [ok |-> TRUE, host |-> RegistryHost]

\* the registry's answer: a status, whether the body parses as JSON, and
\* the parsed body; an optional field is a set with no or one element
RegistryTarball == <<"t",".","t","g","z">>

Bodies ==
  [ name : {{}, {"pkg"}},
    distTags : {"undefined", "noLatest", "latest"},
    tarball : {{}, {<<>>}, {RegistryTarball}} ]

\* npmDetails?.versions?.[npmVersion]?.dist?.tarball, for a body whose
\* versions object holds the version the "latest" tag names
TarballOf(body) == IF body.distTags = "latest" THEN body.tarball ELSE {}

Falsy(opt) == opt = {} \/ opt = {<<>>}

\* the two revisions of npmUpload: with the secondary path check (npm.ts)
\* and without it
Revisions == {"pathCheck", "noPathCheck"}

TarballFileFoundAlways(f) == TRUE

TarballFileFound(f) == f = "found"

VARIABLES
  url,           \* argument url
  revision,      \* "pathCheck" (npm.ts) or "noPathCheck" (earlier revision)
  pc,            \* position in npmUpload
  err,           \* message of the error thrown, "" when none
  log,           \* side effects started, in order
  outcome,       \* outcome of each side effect of log
  fetchHost,     \* host of the URL given to fetch
  response,      \* the registry's answer
  downloadUrl,   \* npmTarballUrl given to downloadUnzipTarball
  pluginName,    \* pluginName given to downloadUnzipTarball
  result,        \* metadata returned, {} when none
  \* TestAPI._requestRaw
  rpc, attempt, reqUrl, status, expectations, given, query, declared, sent,
  transport, rerr

npmVars == <<url, revision, pc, err, log, outcome, fetchHost, response,
             downloadUrl, pluginName, result>>

reqVars == <<rpc, attempt, reqUrl, status, expectations, given, query,
             declared, sent, transport, rerr>>

vars == <<npmVars, reqVars>>

NoResponse == [status |-> 0, json |-> FALSE, body |-> [name |-> {}, distTags |-> "undefined", tarball |-> {}]]

Fail(msg) == pc' = "failed" /\ err' = msg

SetLast(s, v) == [s EXCEPT ![Len(s)] = v]

Start(op) == log' = Append(log, op) /\ outcome' = Append(outcome, "pending")

\* the pending effect returned v and the next effect op starts
ThenStart(v, op) ==
  log' = Append(log, op) /\ outcome' = Append(SetLast(outcome, v), "pending")

Finish(v) == log' = log /\ outcome' = SetLast(outcome, v)

\* npm.ts lines 16-32 and 47: validation, then the first side effect
Begin ==
  /\ pc = "start"
  /\ IF ~IsValidBaseUrl(url)
     THEN Fail(OriginError) /\ UNCHANGED <<log, outcome, fetchHost, downloadUrl, pluginName>>
     ELSE IF IsDirectTarball(url)
     THEN /\ Start("downloadUnzipTarball")
          /\ downloadUrl' = url
          /\ pluginName' = {"name"}
          /\ pc' = "downloading"
          /\ UNCHANGED <<err, fetchHost>>
     ELSE IF revision = "pathCheck" /\ ~PathAllowed(ResolvePath(url))
     THEN Fail(PathError) /\ UNCHANGED <<log, outcome, fetchHost, downloadUrl, pluginName>>
     ELSE IF ~NewURL(ResolvePath(url)).ok
     THEN Fail("TypeError: Invalid URL")
          /\ UNCHANGED <<log, outcome, fetchHost, downloadUrl, pluginName>>
     ELSE /\ Start("fetch")
          /\ fetchHost' = NewURL(ResolvePath(url)).host
          /\ pc' = "fetching"
          /\ UNCHANGED <<err, downloadUrl, pluginName>>
  /\ UNCHANGED <<url, revision, response, result, reqVars>>

\* npm.ts lines 32-47: the registry answers (or fetch rejects)
FetchThrows ==
  /\ pc = "fetching"
  /\ Fail("FetchError") /\ Finish("throw")
  /\ UNCHANGED <<url, revision, fetchHost, response, downloadUrl, pluginName, result, reqVars>>

FetchReturns ==
  /\ pc = "fetching"
  /\ \E st \in {200, 404}, body \in Bodies, parses \in BOOLEAN :
       /\ response' = [status |-> st, json |-> parses, body |-> body]
       /\ IF st # 200
          THEN Fail(NotFoundError) /\ Finish("ok") /\ UNCHANGED <<downloadUrl, pluginName>>
          ELSE IF ~parses
          THEN Fail("SyntaxError") /\ Finish("ok") /\ UNCHANGED <<downloadUrl, pluginName>>
          ELSE IF body.distTags = "undefined"
          THEN Fail("TypeError: Cannot read properties of undefined")
               /\ Finish("ok") /\ UNCHANGED <<downloadUrl, pluginName>>
          ELSE IF Falsy(TarballOf(body))
          THEN Fail(TarballUrlError) /\ Finish("ok") /\ UNCHANGED <<downloadUrl, pluginName>>
          ELSE /\ ThenStart("ok", "downloadUnzipTarball")
               /\ downloadUrl' = CHOOSE t \in TarballOf(body) : TRUE
               /\ pluginName' = body.name
               /\ pc' = "downloading"
               /\ UNCHANGED err
  /\ UNCHANGED <<url, revision, fetchHost, result, reqVars>>

\* npm.ts lines 47-54: the download returns, the archive is searched
DownloadReturns ==
  /\ pc = "downloading"
  /\ \E r \in {"throw", "ok"}, f \in {"found", "undefined"} :
       IF r = "throw"
       THEN Fail("DownloadError") /\ Finish("throw")
       ELSE IF ~TarballFileFound(f)
       THEN /\ Fail(TarballFileError)
            /\ log' = Append(log, "findFileRec")
            /\ outcome' = Append(SetLast(outcome, "ok"), f)
       ELSE /\ log' = log \o <<"findFileRec", "extractTarball">>
            /\ outcome' = SetLast(outcome, "ok") \o <<f, "pending">>
            /\ pc' = "extracting"
            /\ UNCHANGED err
  /\ UNCHANGED <<url, revision, fetchHost, response, downloadUrl, pluginName, result, reqVars>>

\* npm.ts lines 53-60: extraction, deletion of "package", metadata call
ExtractReturns ==
  /\ pc = "extracting"
  /\ \E r \in {"throw", "ok"}, d \in {"throw", "ok"} :
       IF r = "throw"
       THEN Fail("Error: ExtractError") /\ Finish("throw")
       ELSE IF d = "throw"
       THEN /\ Fail("Error: DeleteError")
            /\ log' = Append(log, "deleteFolderFileSystem")
            /\ outcome' = Append(SetLast(outcome, "ok"), "throw")
       ELSE /\ log' = log \o <<"deleteFolderFileSystem", "getPluginMetadata">>
            /\ outcome' = SetLast(outcome, "ok") \o <<"ok", "pending">>
            /\ pc' = "reading"
            /\ UNCHANGED err
  /\ UNCHANGED <<url, revision, fetchHost, response, downloadUrl, pluginName, result, reqVars>>

\* npm.ts line 60
MetadataReturns ==
  /\ pc = "reading"
  /\ \E r \in {"throw", "ok"} :
       IF r = "throw"
       THEN Fail("MetadataError") /\ Finish("throw") /\ UNCHANGED result
       ELSE /\ pc' = "done" /\ Finish("ok") /\ result' = {"metadata"} /\ UNCHANGED err
  /\ UNCHANGED <<url, revision, fetchHost, response, downloadUrl, pluginName, reqVars>>

ReqIdle ==
  /\ rpc = "idle" /\ attempt = 0 /\ reqUrl = <<>> /\ status = 200
  /\ expectations = <<>> /\ given = <<>> /\ query = <<>> /\ declared = <<>>
  /\ sent = <<>> /\ transport = <<>> /\ rerr = ""

InitNpm ==
  /\ url \in InputUrls
  /\ revision \in Revisions
  /\ pc = "start" /\ err = "" /\ log = <<>> /\ outcome = <<>>
  /\ fetchHost = <<>> /\ response = NoResponse
  /\ downloadUrl = <<>> /\ pluginName = {} /\ result = {}
  /\ ReqIdle

NextNpm ==
  \/ Begin
  \/ FetchThrows
  \/ FetchReturns
  \/ DownloadReturns
  \/ ExtractReturns
  \/ MetadataReturns

SpecNpm == InitNpm /\ [][NextNpm]_vars

(* ------------------------ TestAPI._requestRaw -------------------------- *)
ReqPath == <<"/", "p">>

QueryKeys == {"a", "b", "c"}

\* a value of the query object: undefined (or "") is <<>>, which is falsy
QueryValues == { <<>>, <<"1">> }

QueryInputs ==
  { q \in UNION { [1..n -> QueryKeys \X QueryValues] : n \in 0..MaxQuery } :
      \A i, j \in 1..Len(q) : i # j => q[i][1] # q[j][1] }

JsonRegex == "^application/json"

HeaderNames == {"Content-Type", "x-foo"}

\* expected value of a header: "absent" when the key is not in the map,
\* "undefined" when the key maps to undefined
ExpectedValues(h) ==
  IF h = "Content-Type" THEN {"absent", "undefined", "text/html", JsonRegex}
  ELSE {"absent", "undefined", "bar"}

HeaderMaps == { m \in [HeaderNames -> {"absent", "undefined", "text/html", JsonRegex, "bar"}] :
                  \A h \in HeaderNames : m[h] \in ExpectedValues(h) }

NoHeaders == [h \in HeaderNames |-> "absent"]

\* opts.expectations: absent, without a headers map, or with one
ExpectationInputs ==
  { [present |-> FALSE, status |-> {}, hasHeaders |-> FALSE, headers |-> NoHeaders] }
  \cup { [present |-> TRUE, status |-> s, hasHeaders |-> FALSE, headers |-> NoHeaders] :
           s \in {{}, {200}, {204}} }
  \cup { [present |-> TRUE, status |-> s, hasHeaders |-> TRUE, headers |-> m] :
           s \in {{}, {200}, {204}}, m \in HeaderMaps }

DefaultStatus == 200

NoContentStatus == 204

RetryLimitLoose == 2 + 1

RetryLimit == 2

UndefinedHeaderError ==
  "Got an undefined expected value for header, if you want to check for the absence of a header, use headersNotPresent"

\* const { status = 200 } = expectations || {}
StatusOf(e) ==
  IF e.present /\ e.status # {} THEN CHOOSE s \in e.status : TRUE ELSE DefaultStatus

\* expectations?.headers || {}
ExpectHeaders(e) == IF e.present /\ e.hasHeaders THEN e.headers ELSE NoHeaders

NeedsDefaultContentType(e) ==
  /\ StatusOf(e) # NoContentStatus
  /\ ExpectHeaders(e)["Content-Type"] \in {"absent", "undefined"}

\* expectHeaders["Content-Type"] = /^application\/json/ writes into the
\* caller's map when expectHeaders aliases it, and into a discarded {} otherwise
WithDefaultContentType(e) ==
  IF NeedsDefaultContentType(e) /\ e.present /\ e.hasHeaders
  THEN [e EXCEPT !.headers["Content-Type"] = JsonRegex]
  ELSE e

RECURSIVE QueryParams(_)
QueryParams(q) ==
  IF q = <<>> THEN <<>>
  ELSE (IF q[1][2] # <<>> THEN << <<q[1][1], "=">> \o q[1][2] >> ELSE <<>>)
       \o QueryParams(Tail(q))

WithQuery(u, q) ==
  IF QueryParams(q) # <<>> THEN u \o <<"?">> \o Join(QueryParams(q), "&") ELSE u

\* headers of a response
ResponseHeaders ==
  [ kind : {"response"},
    ct : {"application/json; charset=utf-8", "text/html", "absent"},
    xfoo : {"bar", "absent"} ]

TransportError(code) == [kind |-> code, ct |-> "absent", xfoo |-> "absent"]

ActualHeader(r, h) == IF h = "Content-Type" THEN r.ct ELSE r.xfoo

\* req.expect(key, value): a string is compared for equality, a pattern is matched
HeaderMatches(expected, actual) ==
  /\ actual # "absent"
  /\ IF expected = JsonRegex THEN actual = "application/json; charset=utf-8"
     ELSE actual = expected

ExpectationsMet(d, r) ==
  \A h \in HeaderNames : d[h] # "absent" => HeaderMatches(d[h], ActualHeader(r, h))

\* lines 89-151: the request is built and its expectations are declared;
\* awaiting it (line 151) sends it.  getHeaders, the body, the fields and
\* the files do not decide anything below and are taken to succeed.
Prepare ==
  /\ rpc = "start"
  /\ status' = StatusOf(expectations)
  /\ expectations' = WithDefaultContentType(expectations)
  /\ reqUrl' = WithQuery(reqUrl, query)
  /\ IF expectations'.present /\ expectations'.hasHeaders
        /\ \E h \in HeaderNames : expectations'.headers[h] = "undefined"
     THEN /\ rpc' = "thrown"
          /\ rerr' = UndefinedHeaderError
          /\ UNCHANGED <<declared, sent>>
     ELSE /\ declared' = IF expectations'.present /\ expectations'.hasHeaders
                         THEN expectations'.headers ELSE NoHeaders
          /\ sent' = Append(sent, reqUrl')
          /\ rpc' = "awaiting"
          /\ UNCHANGED rerr
  /\ UNCHANGED <<attempt, given, query, transport, npmVars>>

\* lines 150-165, the server answered
Responded ==
  /\ rpc = "awaiting"
  /\ \E r \in ResponseHeaders :
       /\ transport' = Append(transport, r)
       /\ IF ExpectationsMet(declared, r)
          THEN rpc' = "returned" /\ UNCHANGED rerr
          ELSE rpc' = "thrown" /\ rerr' = "expected header"
  /\ UNCHANGED <<attempt, reqUrl, status, expectations, given, query, declared, sent, npmVars>>

\* lines 157-162, the connection was reset
ConnectionReset ==
  /\ rpc = "awaiting"
  /\ transport' = Append(transport, TransportError("ECONNRESET"))
  /\ IF attempt > RetryLimit
     THEN rpc' = "thrown" /\ rerr' = "ECONNRESET" /\ UNCHANGED attempt
     ELSE rpc' = "start" /\ attempt' = attempt + 1 /\ UNCHANGED rerr
  /\ UNCHANGED <<reqUrl, status, expectations, given, query, declared, sent, npmVars>>

\* line 163, any other transport error
OtherError ==
  /\ rpc = "awaiting"
  /\ transport' = Append(transport, TransportError("ETIMEDOUT"))
  /\ rpc' = "thrown" /\ rerr' = "ETIMEDOUT"
  /\ UNCHANGED <<attempt, reqUrl, status, expectations, given, query, declared, sent, npmVars>>

NpmIdle ==
  /\ url = <<>> /\ revision = "pathCheck" /\ pc = "idle" /\ err = ""
  /\ log = <<>> /\ outcome = <<>> /\ fetchHost = <<>> /\ response = NoResponse
  /\ downloadUrl = <<>> /\ pluginName = {} /\ result = {}

InitReq ==
  /\ rpc = "start" /\ attempt = 0 /\ reqUrl = ReqPath /\ status = DefaultStatus
  /\ expectations \in ExpectationInputs /\ given = expectations
  /\ query \in QueryInputs
  /\ declared = NoHeaders /\ sent = <<>> /\ transport = <<>> /\ rerr = ""
  /\ NpmIdle

NextReq ==
  \/ Prepare
  \/ Responded
  \/ ConnectionReset
  \/ OtherError

SpecReq == InitReq /\ [][NextReq]_vars

(* ------------------------------ properties ----------------------------- *)
Range(s) == { s[i] : i \in 1..Len(s) }

AllowListed(u) == StartsWith(u, NpmjsPackageBase) \/ StartsWith(u, RegistryBase)

\* C1: a URL that starts with neither allow-listed prefix makes npmUpload
\* fail with the origin error, and no fetch and no download is ever started.
C1_OriginRejected ==
  (pc \in {"failed", "fetching", "downloading", "extracting", "reading", "done"}
     /\ ~AllowListed(url))
    => (pc = "failed" /\ err = OriginError /\ log = <<>>)

C1_Witness == pc = "failed" /\ err = OriginError /\ StartsWith(url, <<"h","t","t","p","s">>)

\* C2: whenever the resolution fetch is performed, the URL fetched is on
\* the host registry.npmjs.org.
C2_FetchOnRegistryHost == "fetch" \in Range(log) => fetchHost = RegistryHost

AllReset == transport # <<>> /\ \A i \in 1..Len(transport) : transport[i].kind = "ECONNRESET"

\* C3 (as stated): when every attempt ends in a connection reset, the
\* request is sent at most 3 times.
C3_AtMostThreeSends == AllReset => Len(sent) <= 3

\* C3 (amended): when every attempt ends in a connection reset, the request
\* is sent at most 4 times (the first attempt and 3 retries), and the call
\* then throws the connection-reset error, after exactly 4 sends.
C3_AtMostFourSends ==
  AllReset => /\ Len(sent) <= 4
              /\ rpc = "thrown" => (rerr = "ECONNRESET" /\ Len(sent) = 4)
              /\ Len(transport) = 4 => rpc = "thrown"

C3_Witness == AllReset /\ rpc = "thrown" /\ Len(sent) = 4 /\ rerr = "ECONNRESET"

GivenContentType ==
  IF given.present /\ given.hasHeaders THEN given.headers["Content-Type"] ELSE "absent"

\* C4: when the expected status is not 204 and the caller gave no
\* Content-Type expectation, the request sent carries the expectation that
\* the response Content-Type matches ^application/json, so that a response
\* with another Content-Type does not return.
C4_DefaultJsonDeclared ==
  (rpc = "awaiting" /\ status # 204 /\ GivenContentType = "absent")
    => declared["Content-Type"] = JsonRegex

\* C5 (as stated): an allow-listed URL skips resolution when it ends in
\* ".tgz" and goes through resolution whenever it does not end in ".tgz".
C5_SkipIffEndsInTgz ==
  (pc \notin {"start", "idle"} /\ AllowListed(url))
    => IF EndsWith(url, TgzExt)
       THEN log # <<>> /\ log[1] = "downloadUnzipTarball" /\ downloadUrl = url
       ELSE IF log = <<>> THEN pc = "failed" /\ err = "TypeError: Invalid URL"
            ELSE log[1] = "fetch"

\* C5 (amended): an allow-listed URL skips resolution (no fetch, the URL
\* itself is downloaded) when it contains ".tgz" anywhere, and goes through
\* resolution whenever it does not contain ".tgz": the first side effect is
\* the registry fetch, unless building the registry URL fails.
C5_SkipIffContainsTgz ==
  (pc \notin {"start", "idle"} /\ AllowListed(url))
    => IF Includes(url, TgzExt)
       THEN /\ log # <<>> /\ log[1] = "downloadUnzipTarball" /\ downloadUrl = url
            /\ "fetch" \notin Range(log)
       ELSE IF log = <<>> THEN pc = "failed" /\ err = "TypeError: Invalid URL"
            ELSE log[1] = "fetch"

C5_Witness ==
  /\ AllowListed(url) /\ Includes(url, TgzExt) /\ ~EndsWith(url, TgzExt)
  /\ pc = "downloading" /\ log = <<"downloadUnzipTarball">> /\ downloadUrl = url

\* C6: a 200 answer whose JSON body lacks the name, the dist-tags object or
\* its "latest" entry, or the tarball URL of the latest version makes
\* npmUpload fail with "NPM tarball url not found" without any download.
C6_MissingFieldFails ==
  (/\ pc \notin {"start", "idle", "fetching"}
   /\ response.status = 200 /\ response.json
   /\ \/ response.body.name = {}
      \/ response.body.distTags # "latest"
      \/ response.body.tarball = {})
    => (pc = "failed" /\ err = TarballUrlError /\ "downloadUnzipTarball" \notin Range(log))

\* C7: a call whose expectations.headers maps some header to undefined
\* fails with the headersNotPresent message and nothing is ever sent.
C7_UndefinedHeaderFailsFast ==
  (given.present /\ given.hasHeaders
     /\ \E h \in HeaderNames : given.headers[h] = "undefined")
    => /\ sent = <<>>
       /\ rpc # "start" => (rpc = "thrown" /\ rerr = UndefinedHeaderError)

\* C8: every attempt of a call is sent to the same URL, the path followed
\* by the query string appended once.
C8_SameUrlEveryAttempt ==
  \A i \in 1..Len(sent) : sent[i] = WithQuery(ReqPath, query)

Order ==
  <<"fetch", "downloadUnzipTarball", "findFileRec", "extractTarball",
    "deleteFolderFileSystem", "getPluginMetadata">>

Succeeded(i) == outcome[i] = (IF log[i] = "findFileRec" THEN "found" ELSE "ok")

\* C9: the side effects of npmUpload happen in one fixed order, each only
\* after every earlier one succeeded; the download needs a valid origin and,
\* after a fetch, a 200 answer with a tarball URL; after a failure nothing
\* else runs and no metadata is returned.
C9_StrictOrder ==
  /\ \E k \in {0, 1} : /\ Len(log) + k <= Len(Order)
                       /\ \A i \in 1..Len(log) : log[i] = Order[i + k]
  /\ Len(outcome) = Len(log)
  /\ \A i \in 1..(Len(log) - 1) : Succeeded(i)
  /\ "downloadUnzipTarball" \in Range(log) =>
       /\ AllowListed(url)
       /\ log[1] = "fetch" =>
            /\ response.status = 200 /\ response.json
            /\ ~Falsy(TarballOf(response.body))
            /\ downloadUrl \in TarballOf(response.body)
  /\ pc = "failed" => (result = {} /\ err # "" /\ "pending" \notin Range(outcome))
  /\ result # {} => (pc = "done" /\ Len(log) >= 5 /\ \A i \in 1..Len(log) : Succeeded(i))

C9_Witness == pc = "done" /\ log = Order /\ result = {"metadata"}

\* C10: the secondary path check never rejects: the path tested always
\* starts with an allowed prefix, and npmUpload never fails with
\* "Invalid NPM package path", so both revisions accept the same URLs.
C10_PathCheckNeverRejects ==
  /\ err # PathError
  /\ (AllowListed(url) /\ ~Includes(url, TgzExt)) => PathAllowed(ResolvePath(url))

C10_Witness ==
  /\ revision = "pathCheck" /\ pc = "fetching"
  /\ Len(Slice(Split(url, "/"), 4)) >= 2

====
